---- MODULE Spec2Model ----
(***************************************************************************)
(* GLV lattice-basis construction and scalar decomposition of              *)
(* src/plonk/circuit/curve_new/sage_gen_script.py (lines 163-243).         *)
(*                                                                         *)
(* The script is Sage: integer literals are arbitrary-precision Integers,  *)
(* v/u is an exact rational, int() truncates toward zero, round() rounds    *)
(* the exact rational to the nearest integer (half away from zero) and     *)
(* n.nbits() is the bit length of |n| (0 for n = 0).                       *)
(***************************************************************************)
EXTENDS Integers, FiniteSets, Sequences, TLC

\* ---------------------------------------------------------------- bounds
\* largest group order explored
MaxFr == 30
\* number of decomposition calls explored out of the NUM_OF_TESTS of the run
MaxTests == 2

\* ------------------------------------------------------ integer helpers
Abs(n) == IF n < 0 THEN -n ELSE n

IsPrime(n) == n > 1 /\ \A d \in 2..(n - 1) : n % d /= 0

\* params.Fr : a prime group order
Primes == {n \in 2..MaxFr : IsPrime(n)}

\* Integer.isqrt(): floor of the square root
isqrt(n) == CHOOSE s \in 0..n : s * s <= n /\ (s + 1) * (s + 1) > n

\* Integer.nbits(): number of bits of |n|, 0 for n = 0
RECURSIVE nbits(_)
nbits(n) == IF n = 0 THEN 0 ELSE 1 + nbits(Abs(n) \div 2)

\* int(n/d) of an exact rational, d > 0: truncation toward zero
int_div(n, d) == IF n >= 0 THEN n \div d ELSE -((-n) \div d)

\* int(n/d) that drops the sign handling
round_trunc(n, d) == int_div(n, d)

\* round(n/d) of an exact rational, d > 0: nearest integer, half away from 0
round(n, d) ==
    IF n >= 0 THEN (2 * n + d) \div (2 * d)
              ELSE -((2 * (-n) + d) \div (2 * d))

max(m, n) == IF m >= n THEN m ELSE n

VARIABLES Fr, Lambda, bound, u, v, x1, y1, x2, y2, q, r, x, y,
          a1, b1, a2, b2, r_l, t_l, r_l2, x_l2, y_l2,
          v_1_norm_squared, v_2_norm_squared, max_norm_squared, limit,
          k, c1, c2, k1, k2, ret, tests, iters, defined, pc

loopvars == <<u, v, x1, y1, x2, y2, r, x, y>>
exitvars == <<a1, b1, a2, b2, r_l, t_l, r_l2, x_l2, y_l2>>
normvars == <<v_1_norm_squared, v_2_norm_squared, max_norm_squared, limit>>
callvars == <<k, c1, c2, k1, k2, ret, tests>>
vars == <<Fr, Lambda, bound, loopvars, q, exitvars, normvars, callvars,
          iters, defined, pc>>

\* lines 166-169: state on entry to the while loop.  Names not yet bound by
\* the script hold 0 and are absent from `defined`.
Init ==
    /\ Fr \in Primes
    /\ Lambda \in 0..(Fr - 1)
    /\ bound = isqrt(Fr)
    /\ u = Fr
    /\ v = Lambda
    /\ x1 = 1 /\ y1 = 0 /\ x2 = 0 /\ y2 = 1
    /\ q = 0 /\ r = 0 /\ x = 0 /\ y = 0
    /\ a1 = 0 /\ b1 = 0 /\ a2 = 0 /\ b2 = 0
    /\ r_l = 0 /\ t_l = 0 /\ r_l2 = 0 /\ x_l2 = 0 /\ y_l2 = 0
    /\ v_1_norm_squared = 0 /\ v_2_norm_squared = 0
    /\ max_norm_squared = 0 /\ limit = 0
    /\ k = 0 /\ c1 = 0 /\ c2 = 0 /\ k1 = 0 /\ k2 = 0
    /\ ret = "none" /\ tests = 0 /\ iters = 0
    /\ defined = {}
    /\ pc = "loop"

\* ------------------------------------------------- lines 170-200: the loop
\* line 174 with the sign of the quotient term flipped
y_step_plus(c2_, qq, c1_) == c2_ + qq * c1_

\* lines 173-174, 189-190: coefficient update  c = c2 - q*c1
y_step(c2_, qq, c1_) == c2_ - qq * c1_

\* line 182 comparing against bound - 1
stops_early_by_one(rr, bb) == rr < bb - 1

\* line 182: the loop's exit test
stops(rr, bb) == rr < bb

\* lines 171-182: one pass of the loop body up to the exit test.
\* int(v/u) raises ZeroDivisionError when u = 0.
LoopBody ==
    /\ pc = "loop"
    /\ IF u = 0
       THEN /\ pc' = "ZeroDivisionError"
            /\ UNCHANGED <<loopvars, q, iters, defined>>
       ELSE LET qn == int_div(v, u)
                rn == v - qn * u
                xn == y_step(x2, qn, x1)
                yn == y_step(y2, qn, y1)
            IN  /\ q' = qn
                /\ r' = rn
                /\ x' = xn
                /\ y' = yn
                /\ v' = u
                /\ u' = rn
                /\ x2' = x1
                /\ x1' = xn
                /\ y2' = y1
                /\ y1' = yn
                /\ iters' = iters + 1
                /\ defined' = defined \cup {"q", "r", "x", "y"}
                /\ pc' = IF stops(rn, bound) THEN "exit" ELSE "loop"
    /\ UNCHANGED <<Fr, Lambda, bound, exitvars, normvars, callvars>>

\* line 184 without the negation
stop_b_unnegated == y1

\* line 184: b1 = -y1
stop_b == -y1

\* line 185 taking the x-coefficient of the stop step
r_l_wrong_coeff == x1 * Fr + y2 * Lambda

\* line 185: r_l = x2*Fr + y2*Lambda
r_l_value == x2 * Fr + y2 * Lambda

\* line 186 taking the coefficient of the stop step
t_l_of_stop == y1

\* line 186: t_l = y2
t_l_value == y2

\* line 192 with the comparison reversed
pre_stop_longer(rl, tl, rl2, yl2) == rl * rl + tl * tl >= rl2 * rl2 + yl2 * yl2

\* line 192: r_l^2 + t_l^2 <= r_l2^2 + y_l2^2
pre_stop_not_longer(rl, tl, rl2, yl2) ==
    rl * rl + tl * tl <= rl2 * rl2 + yl2 * yl2

\* lines 183-200: the exit branch.  a1, b1, r_l, t_l are bound before the
\* division of line 187, which raises ZeroDivisionError when u = 0.
ExitBranch ==
    /\ pc = "exit"
    /\ r_l' = r_l_value
    /\ t_l' = t_l_value
    /\ IF u = 0
       THEN /\ a1' = r
            /\ b1' = stop_b
            /\ defined' = defined \cup {"a1", "b1", "r_l", "t_l"}
            /\ pc' = "ZeroDivisionError"
            /\ UNCHANGED <<q, a2, b2, r_l2, x_l2, y_l2>>
       ELSE LET qn   == int_div(v, u)
                rl2n == v - qn * u
                xl2n == y_step(x2, qn, x1)
                yl2n == y_step(y2, qn, y1)
                swap == pre_stop_not_longer(r_l_value, t_l_value, rl2n, yl2n)
            IN  /\ q' = qn
                /\ r_l2' = rl2n
                /\ x_l2' = xl2n
                /\ y_l2' = yl2n
                /\ a1' = IF swap THEN r_l_value ELSE r
                /\ b1' = IF swap THEN -t_l_value ELSE stop_b
                /\ a2' = IF swap THEN r ELSE rl2n
                /\ b2' = IF swap THEN stop_b ELSE -yl2n
                /\ defined' = defined \cup {"a1", "b1", "a2", "b2", "r_l",
                                            "t_l", "r_l2", "x_l2", "y_l2"}
                /\ pc' = "norms"
    /\ UNCHANGED <<Fr, Lambda, bound, loopvars, normvars, callvars, iters>>

\* ------------------------------------------------------ lines 217-220
\* line 220 adding 2 instead of 1 before halving
limit_round_up(m) == int_div(nbits(m) + 2, 2)

\* line 220: limit = int((max_norm_squared.nbits() + 1) / 2)
limit_of(m) == int_div(nbits(m) + 1, 2)

\* lines 217-220
Norms ==
    /\ pc = "norms"
    /\ v_1_norm_squared' = a1 * a1 + b1 * b1
    /\ v_2_norm_squared' = a2 * a2 + b2 * b2
    /\ max_norm_squared' = max(a1 * a1 + b1 * b1, a2 * a2 + b2 * b2)
    /\ limit' = limit_of(max(a1 * a1 + b1 * b1, a2 * a2 + b2 * b2))
    /\ defined' = defined \cup {"limit"}
    /\ pc' = "tests"
    /\ UNCHANGED <<Fr, Lambda, bound, loopvars, q, exitvars, callvars, iters>>

\* ------------------------------------------------------ lines 224-235
\* Lines 227-235 for given c1, c2.  ok is FALSE when an assert of lines
\* 233-234 fails.
decomposition(c1n, c2n, kk) ==
    LET k1n == kk - c1n * a1 - c2n * a2
        k2n == -c1n * b1 - c2n * b2
        k1r == IF nbits(k1n) > limit THEN Fr - k1n ELSE k1n
        k2r == IF nbits(k2n) > limit THEN Fr - k2n ELSE k2n
    IN  [c1 |-> c1n, c2 |-> c2n, k1 |-> k1r, k2 |-> k2r,
         ok |-> nbits(k1r) <= limit /\ nbits(k2r) <= limit]

\* lines 224-235
get_endomorphism_scalar_decomposition(kk) ==
    decomposition(round(b2 * kk, Fr), round(-b1 * kk, Fr), kk)

\* lines 240-242: one pass of the test loop, k = random.randint(0, Fr)
\* (both ends included).  A failed assert ends the script.
Decompose ==
    /\ pc = "tests"
    /\ tests < MaxTests
    /\ \E kk \in 0..Fr :
          LET d == get_endomorphism_scalar_decomposition(kk)
          IN  /\ k' = kk
              /\ c1' = d.c1
              /\ c2' = d.c2
              /\ k1' = d.k1
              /\ k2' = d.k2
              /\ ret' = IF d.ok THEN "returned" ELSE "AssertionError"
              /\ pc' = IF d.ok THEN "tests" ELSE "AssertionError"
    /\ tests' = tests + 1
    /\ UNCHANGED <<Fr, Lambda, bound, loopvars, q, exitvars, normvars,
                   iters, defined>>

\* line 243: the test loop is exhausted
Finish ==
    /\ pc = "tests"
    /\ tests = MaxTests
    /\ pc' = "FINISH"
    /\ UNCHANGED <<Fr, Lambda, bound, loopvars, q, exitvars, normvars,
                   callvars, iters, defined>>

Next == LoopBody \/ ExitBranch \/ Norms \/ Decompose \/ Finish

Spec == Init /\ [][Next]_vars

\* The script is sequential: a statement that can run does run.
FairSpec == Spec /\ WF_vars(Next)

\* ------------------------------------------------------------ properties
\* Lambda is a root of the characteristic polynomial X^2 + X + 1 modulo Fr
IsRoot == (Lambda * Lambda + Lambda + 1) % Fr = 0

BasisBuilt == {"a1", "b1", "a2", "b2"} \subseteq defined

PreNorm == r_l * r_l + t_l * t_l
PostNorm == r_l2 * r_l2 + y_l2 * y_l2
MinNorm == IF PreNorm <= PostNorm THEN PreNorm ELSE PostNorm

\* C1: every basis vector the construction binds lies in the sublattice
\* { (a, b) : a + b*Lambda = 0 (mod Fr) }, whichever tie-break branch ran.
C1_BasisInSublattice ==
    /\ ("a1" \in defined => (a1 + b1 * Lambda) % Fr = 0)
    /\ ("a2" \in defined => (a2 + b2 * Lambda) % Fr = 0)

\* both vectors bound through the no-swap branch, after a real division
C1_Witness == BasisBuilt /\ PreNorm > PostNorm /\ iters >= 2 /\ b2 /= 0

\* C2: for Lambda a root of X^2+X+1 mod Fr and 0 <= k < Fr, the returned pair
\* satisfies k1 + k2*Lambda = k (mod Fr).
C2_Reconstruction ==
    (ret = "returned" /\ IsRoot /\ k < Fr) =>
        (k1 + k2 * Lambda - k) % Fr = 0

\* C3: for Lambda a root of X^2+X+1 mod Fr and 0 <= k <= Fr - 1, neither
\* assertion of lines 233-234 fails.
C3_AssertionsHold ==
    (IsRoot /\ k <= Fr - 1) => ret /= "AssertionError"

\* C4: for Fr = 13, Lambda = 3 every basis component has absolute value at
\* most 4, and every k in 0..12 decomposes to (k1, k2) with
\* k1 + 3*k2 = k (mod 13) and |k1|, |k2| of at most 3 bits.
C4_ToyGroup ==
    (Fr = 13 /\ Lambda = 3) =>
        /\ BasisBuilt =>
              Abs(a1) <= 4 /\ Abs(b1) <= 4 /\ Abs(a2) <= 4 /\ Abs(b2) <= 4
        /\ (ret /= "none" /\ k <= 12) =>
              /\ ret = "returned"
              /\ (k1 + 3 * k2 - k) % 13 = 0
              /\ Abs(k1) < 8 /\ Abs(k2) < 8

C4_Witness == Fr = 13 /\ Lambda = 3 /\ ret = "returned" /\ k = 12 /\ k1 /= 0

\* least c with 2^c >= m, for m >= 1
CeilLog2(m) == CHOOSE c \in 0..m : 2^c >= m /\ (c = 0 \/ 2^(c - 1) < m)

\* greatest e with 2^e <= m, for m >= 1
FloorLog2(m) == CHOOSE e \in 0..m : 2^e <= m /\ m < 2^(e + 1)

CeilHalf(n) == (n + 1) \div 2

\* C5 as stated: limit = ceil((ceil(log2(M)) + 1) / 2) for
\* M = max(a1^2 + b1^2, a2^2 + b2^2).
C5_LimitCeilFormula ==
    "limit" \in defined =>
        limit = CeilHalf(CeilLog2(max(a1 * a1 + b1 * b1, a2 * a2 + b2 * b2)) + 1)

\* C5 amended: limit = floor((nbits(M) + 1) / 2) with
\* nbits(M) = floor(log2(M)) + 1, for M = max(a1^2 + b1^2, a2^2 + b2^2).
C5_LimitFloorFormula ==
    "limit" \in defined =>
        /\ max_norm_squared = max(a1 * a1 + b1 * b1, a2 * a2 + b2 * b2)
        /\ limit = (FloorLog2(max_norm_squared) + 2) \div 2

\* a norm of even bit length that is no power of two: the two formulas differ
C5_Witness ==
    /\ "limit" \in defined
    /\ FloorLog2(max_norm_squared) % 2 = 1
    /\ 2^FloorLog2(max_norm_squared) /= max_norm_squared

\* C6: Bezout invariant.  The remainder of every iteration satisfies
\* r = x*Fr + y*Lambda, and after the rotation u = x1*Fr + y1*Lambda and
\* v = x2*Fr + y2*Lambda, from the initial state on.
C6_Bezout ==
    /\ u = x1 * Fr + y1 * Lambda
    /\ v = x2 * Fr + y2 * Lambda
    /\ ("r" \in defined => r = x * Fr + y * Lambda)

\* three iterations done, the last two with a non-zero quotient
C6_Witness == pc = "loop" /\ iters >= 3 /\ q > 0 /\ y /= 0 /\ x /= 0

C8_TieBreak ==
    BasisBuilt =>
        /\ r < bound /\ v >= bound
        /\ r_l = v /\ t_l = y2
        /\ IF PreNorm <= PostNorm
           THEN /\ a1 = r_l /\ b1 = -t_l /\ a2 = r /\ b2 = -y1
                /\ a1 * a1 + b1 * b1 = MinNorm
           ELSE /\ a1 = r /\ b1 = -y1 /\ a2 = r_l2 /\ b2 = -y_l2
                /\ a2 * a2 + b2 * b2 = MinNorm

\* the swap branch taken after several iterations
C8_Witness == BasisBuilt /\ PreNorm <= PostNorm /\ iters >= 3 /\ r_l2 > 0

\* C9: for 0 < Lambda < Fr the basis has determinant of magnitude Fr.
C9_Determinant ==
    (BasisBuilt /\ Lambda > 0) => Abs(a1 * b2 - a2 * b1) = Fr

C9_Witness ==
    BasisBuilt /\ Lambda > 1 /\ PreNorm <= PostNorm /\ a1 * b2 - a2 * b1 = -Fr

\* round(n/d), d > 0, with ties going to the even neighbour
round_half_even(n, d) ==
    LET f == n \div d
        t == 2 * (n - f * d)
    IN  IF t < d THEN f
        ELSE IF t > d THEN f + 1
        ELSE IF f % 2 = 0 THEN f ELSE f + 1

\* round(n/d), d > 0, with ties going toward zero
round_half_to_zero(n, d) ==
    IF n >= 0 THEN (2 * n + d - 1) \div (2 * d)
              ELSE -((2 * (-n) + d - 1) \div (2 * d))

Outcome == [c1 |-> c1, c2 |-> c2, k1 |-> k1, k2 |-> k2, ok |-> ret = "returned"]

\* C10: for odd Fr neither rounded rational is half-way between two
\* integers, so c1, c2 and the outcome of the call are those of
\* round-half-to-even and of round-half-toward-zero as well.
C10_NoTies ==
    (ret /= "none" /\ Fr % 2 = 1) =>
        /\ (2 * b2 * k) % (2 * Fr) /= Fr
        /\ (2 * b1 * k) % (2 * Fr) /= Fr
        /\ decomposition(round_half_even(b2 * k, Fr),
                        round_half_even(-b1 * k, Fr), k) = Outcome
        /\ decomposition(round_half_to_zero(b2 * k, Fr),
                        round_half_to_zero(-b1 * k, Fr), k) = Outcome

\* both rationals are proper fractions that get rounded up in magnitude
C10_Witness ==
    /\ ret /= "none" /\ Fr % 2 = 1
    /\ c1 /= 0 /\ c2 /= 0
    /\ Abs(c1) * Fr > Abs(b2 * k) /\ Abs(c2) * Fr > Abs(b1 * k)

====
